---- MODULE Spec2Model ----
(***************************************************************************)
(* sez_to_ecef.py: conversion of a topocentric SEZ vector at an observer   *)
(* given by geodetic latitude, longitude and height into an ECEF position. *)
(*                                                                         *)
(* The script is modelled statement by statement.  pc holds the source     *)
(* line about to run ("L68" ... "L97"), or "exited" once the interpreter   *)
(* has stopped.  Python floats are modelled as records                     *)
(*     [k |-> "fin", v |-> n]   a finite value, n a fixed-point integer    *)
(*     [k |-> "inf", v |-> +-1] an infinity                                *)
(*     [k |-> "nan", v |-> 0]   not-a-number                               *)
(* and a raised exception as a record whose k is the exception's name.     *)
(* Finite values are fixed-point: parsed arguments, degrees and lengths    *)
(* count units of 1/K; radians and dimensionless values (sines, cosines,   *)
(* the eccentricity, the literal 1.0) count units of 1/U.  Every product   *)
(* in the script has a dimensionless right operand, so one multiplication  *)
(* (a*b/U, rounded to nearest, as a float product is rounded) serves all.  *)
(***************************************************************************)
EXTENDS Integers, Sequences, FiniteSets, TLC

------------------------------------------------------------------------------
(* Fixed-point substrate of the float model *)

\* limb of the double-width product
B == 10000
\* dimensionless values and radians: units of 1e-8
U == B * B
\* decimal digits of a dimensionless fraction: U = 10^FRAC_U
FRAC_U == 8
\* decimal digits of a parsed fraction
FRAC_K == 5
\* parsed arguments, degrees, kilometres: units of 1e-5
K == 10 ^ FRAC_K

Abs(n) == IF n < 0 THEN -n ELSE n
Sgn(n) == IF n < 0 THEN -1 ELSE IF n > 0 THEN 1 ELSE 0

\* a*b for a, b >= 0 as <<H, L>> with a*b = H*U + L and 0 <= L < U,
\* computed on limbs so that no intermediate leaves 32 bits
WideMul(a, b) ==
  LET a1 == a \div B
      a0 == a % B
      b1 == b \div B
      b0 == b % B
      M  == a1 * b0 + a0 * b1
      t  == (M % B) * B + a0 * b0
  IN  <<a1 * b1 + (M \div B) + (t \div U), t % U>>

\* round(a*b/U), sign and magnitude as in a float product
MulRound(a, b) ==
  LET w == WideMul(Abs(a), Abs(b))
  IN  Sgn(a) * Sgn(b) * (w[1] + (IF 2 * w[2] >= U THEN 1 ELSE 0))

RECURSIVE LongDiv(_, _, _, _)
\* n more decimal digits of the quotient q with remainder r, then rounding
LongDiv(q, r, d, n) ==
  IF n = 0 THEN q + (IF 2 * r >= d THEN 1 ELSE 0)
  ELSE LongDiv(10 * q + ((10 * r) \div d), (10 * r) % d, d, n - 1)

\* round(a*U/d) for d > 0, by long division
DivRound(a, d) == Sgn(a) * LongDiv(Abs(a) \div d, Abs(a) % d, d, FRAC_U)

\* r*(r-1) < x*U, compared on the double-width product
SqBelow(r, x) ==
  LET w == WideMul(r, r - 1)
  IN  w[1] < x

RECURSIVE SqrtSearch(_, _, _)
\* the largest r in lo..hi with r*(r-1) < x*U, i.e. round(sqrt(x*U))
SqrtSearch(x, lo, hi) ==
  IF lo >= hi THEN lo
  ELSE LET mid == (lo + hi + 1) \div 2
       IN  IF SqBelow(mid, x) THEN SqrtSearch(x, mid, hi)
           ELSE SqrtSearch(x, lo, mid - 1)

\* round(sqrt(x)) of a dimensionless x >= 0
SqrtFix(x) == IF x = 0 THEN 0 ELSE SqrtSearch(x, 1, 2 * U)

\* pi, 2*pi and pi/2 in units of 1/U
PI      == 314159265
TWO_PI  == 628318531
HALF_PI == 157079633

\* sin on [0, pi/2]: the Taylor polynomial through x^15, Horner form
SinPoly(x) ==
  LET x2 == MulRound(x, x)
      t7 == U - (x2 \div 210)
      t6 == U - (MulRound(x2, t7) \div 156)
      t5 == U - (MulRound(x2, t6) \div 110)
      t4 == U - (MulRound(x2, t5) \div 72)
      t3 == U - (MulRound(x2, t4) \div 42)
      t2 == U - (MulRound(x2, t3) \div 20)
      t1 == U - (MulRound(x2, t2) \div 6)
  IN  MulRound(x, t1)

\* cos on [0, pi/2]: the Taylor polynomial through x^16, Horner form
CosPoly(x) ==
  LET x2 == MulRound(x, x)
      t8 == U - (x2 \div 240)
      t7 == U - (MulRound(x2, t8) \div 182)
      t6 == U - (MulRound(x2, t7) \div 132)
      t5 == U - (MulRound(x2, t6) \div 90)
      t4 == U - (MulRound(x2, t5) \div 56)
      t3 == U - (MulRound(x2, t4) \div 30)
      t2 == U - (MulRound(x2, t3) \div 12)
  IN  U - (MulRound(x2, t2) \div 2)

\* sin of any angle: odd, reduced modulo 2*pi, then to the first quadrant
SinFix(x) ==
  LET m == Abs(x) % TWO_PI
      h == IF m > PI THEN m - PI ELSE m
      q == IF h > HALF_PI THEN PI - h ELSE h
  IN  Sgn(x) * (IF m > PI THEN -1 ELSE 1) * SinPoly(q)

\* cos of any angle: even, reduced modulo 2*pi, then to the first quadrant
CosFix(x) ==
  LET m == Abs(x) % TWO_PI
      h == IF m > PI THEN TWO_PI - m ELSE m
  IN  IF h > HALF_PI THEN -CosPoly(PI - h) ELSE CosPoly(h)

------------------------------------------------------------------------------
(* Python floats and the exceptions an expression can raise *)

Fin(n) == [k |-> "fin", v |-> n]
Inf(s) == [k |-> "inf", v |-> s]
NaN    == [k |-> "nan", v |-> 0]
ValueError        == [k |-> "ValueError", v |-> 0]
ZeroDivisionError == [k |-> "ZeroDivisionError", v |-> 0]

IsExc(a) == a.k \in {"ValueError", "ZeroDivisionError"}
IsFin(a) == a.k = "fin"

\* Python evaluates an operand once, before the operation is applied:
\* Strict1 and Strict2 bind the operands' values, then apply Op to them
Strict1(Op(_), a) == CHOOSE r \in {Op(p) : p \in {a}} : TRUE
Strict2(Op(_, _), a, b) ==
  CHOOSE r \in {Op(p[1], p[2]) : p \in {<<a, b>>}} : TRUE

\* the exception an expression with operands a and b propagates
Propagate(a, b) == IF IsExc(a) THEN a ELSE b

float_neg(a) ==
  IF IsExc(a) \/ a.k = "nan" THEN a
  ELSE [k |-> a.k, v |-> -a.v]

float_add(a, b) ==
  IF IsExc(a) \/ IsExc(b) THEN Propagate(a, b)
  ELSE IF a.k = "nan" \/ b.k = "nan" THEN NaN
  ELSE IF a.k = "inf" /\ b.k = "inf" THEN (IF a.v = b.v THEN a ELSE NaN)
  ELSE IF a.k = "inf" THEN a
  ELSE IF b.k = "inf" THEN b
  ELSE Fin(a.v + b.v)

float_mul(a, b) ==
  IF IsExc(a) \/ IsExc(b) THEN Propagate(a, b)
  ELSE IF a.k = "nan" \/ b.k = "nan" THEN NaN
  ELSE IF a.k = "inf" \/ b.k = "inf"
       THEN (IF Sgn(a.v) * Sgn(b.v) = 0 THEN NaN ELSE Inf(Sgn(a.v) * Sgn(b.v)))
  ELSE Fin(MulRound(a.v, b.v))

float_div(a, b) ==
  IF IsExc(a) \/ IsExc(b) THEN Propagate(a, b)
  ELSE IF a.k = "nan" \/ b.k = "nan" THEN NaN
  ELSE IF b.k = "inf" THEN (IF a.k = "inf" THEN NaN ELSE Fin(0))
  ELSE IF b.v = 0 THEN ZeroDivisionError
  ELSE IF a.k = "inf" THEN Inf(a.v * Sgn(b.v))
  ELSE Fin(Sgn(b.v) * DivRound(a.v, Abs(b.v)))

math_sqrt(a) ==
  IF IsExc(a) \/ a.k = "nan" THEN a
  ELSE IF a.v < 0 THEN ValueError
  ELSE IF a.k = "inf" THEN a
  ELSE Fin(SqrtFix(a.v))

math_sin(a) ==
  IF IsExc(a) \/ a.k = "nan" THEN a
  ELSE IF a.k = "inf" THEN ValueError
  ELSE Fin(SinFix(a.v))

math_cos(a) ==
  IF IsExc(a) \/ a.k = "nan" THEN a
  ELSE IF a.k = "inf" THEN ValueError
  ELSE Fin(CosFix(a.v))

\* -a
fneg(a) == Strict1(float_neg, a)
\* a + b
fadd(a, b) == Strict2(float_add, a, b)
\* a - b
fsub(a, b) == Strict2(float_add, a, fneg(b))
\* a * b, b dimensionless
fmul(a, b) == Strict2(float_mul, a, b)
\* a / b, b dimensionless
fdiv(a, b) == Strict2(float_div, a, b)
\* a ** 2
fsquare(a) == Strict2(float_mul, a, a)
\* math.sqrt(a): a domain error below zero
fsqrt(a) == Strict1(math_sqrt, a)
\* math.sin(a): a domain error at an infinity
fsin(a) == Strict1(math_sin, a)
\* math.cos(a): a domain error at an infinity
fcos(a) == Strict1(math_cos, a)

\* pi/180 carried from units of 1/K of a degree to units of 1/U of a radian
DEG_TO_RAD == 1745329252

\* math.radians with pi/200, the factor of gradians
radians_Gradians(a) == fmul(a, Fin(1570796327))

\* math.radians: x * (pi/180)
radians(a) == fmul(a, Fin(DEG_TO_RAD))

------------------------------------------------------------------------------
(* float(str) and str(float) *)

Digits == <<"0", "1", "2", "3", "4", "5", "6", "7", "8", "9">>

IsDigit(c) == \E i \in 1..10 : Digits[i] = c
DigitVal(c) == (CHOOSE i \in 1..10 : Digits[i] = c) - 1

RECURSIVE AllDigits(_)
AllDigits(s) == s = "" \/ (IsDigit(Head(s)) /\ AllDigits(Tail(s)))

RECURSIVE DigitsVal(_, _)
\* the value of a digit string, acc the value of the digits already read
DigitsVal(s, acc) ==
  IF s = "" THEN acc ELSE DigitsVal(Tail(s), 10 * acc + DigitVal(Head(s)))

RECURSIVE DotAt(_, _)
\* the index of the first "." of s at or after i, 0 when there is none
DotAt(s, i) ==
  IF i > Len(s) THEN 0
  ELSE IF SubSeq(s, i, i) = "." THEN i
  ELSE DotAt(s, i + 1)

\* s padded with zeros, or cut, to exactly n characters
RECURSIVE PadTo(_, _)
PadTo(s, n) ==
  IF Len(s) >= n THEN SubSeq(s, 1, n) ELSE PadTo(s \o "0", n)

\* the unsigned decimal  digits [. digits]  with a digit somewhere
ParseDecimal(s) ==
  LET d    == DotAt(s, 1)
      ip   == IF d = 0 THEN s ELSE SubSeq(s, 1, d - 1)
      fp   == IF d = 0 THEN "" ELSE SubSeq(s, d + 1, Len(s))
  IN  IF AllDigits(ip) /\ AllDigits(fp) /\ Len(ip) + Len(fp) > 0
      THEN Fin(DigitsVal(ip, 0) * K + DigitsVal(PadTo(fp, FRAC_K), 0))
      ELSE ValueError

\* a float() that yields nan where the text is no number
float_Lenient(s) ==
  LET neg  == s # "" /\ Head(s) = "-"
      sgn  == s # "" /\ Head(s) \in {"-", "+"}
      body == IF sgn THEN Tail(s) ELSE s
      mag  == IF body \in {"inf", "infinity"} THEN Inf(1)
              ELSE IF body = "nan" THEN NaN
              ELSE ParseDecimal(body)
  IN  IF IsExc(mag) THEN NaN ELSE IF neg THEN fneg(mag) ELSE mag

\* float(s): an optional sign, then inf, infinity, nan or a decimal;
\* anything else raises ValueError
float(s) ==
  LET neg  == s # "" /\ Head(s) = "-"
      sgn  == s # "" /\ Head(s) \in {"-", "+"}
      body == IF sgn THEN Tail(s) ELSE s
      mag  == IF body \in {"inf", "infinity"} THEN Inf(1)
              ELSE IF body = "nan" THEN NaN
              ELSE ParseDecimal(body)
  IN  IF neg THEN fneg(mag) ELSE mag

RECURSIVE NatStr(_)
\* the decimal digits of n >= 0
NatStr(n) ==
  IF n < 10 THEN Digits[n + 1] ELSE NatStr(n \div 10) \o Digits[(n % 10) + 1]

\* str(n) of an int
IntStr(n) == IF n < 0 THEN "-" \o NatStr(-n) ELSE NatStr(n)

RECURSIVE StripZeros(_)
\* a fraction's digits without trailing zeros, one digit kept
StripZeros(s) ==
  IF Len(s) > 1 /\ SubSeq(s, Len(s), Len(s)) = "0"
  THEN StripZeros(SubSeq(s, 1, Len(s) - 1)) ELSE s

\* the n digits of f < 10^n, leading zeros kept
RECURSIVE FracStr(_, _)
FracStr(f, n) ==
  IF n = 0 THEN "" ELSE FracStr(f \div 10, n - 1) \o Digits[(f % 10) + 1]

\* str(x) of a float, the text print(x) writes
Repr(a) ==
  IF a.k = "nan" THEN "nan"
  ELSE IF a.k = "inf" THEN (IF a.v < 0 THEN "-inf" ELSE "inf")
  ELSE (IF a.v < 0 THEN "-" ELSE "")
       \o NatStr(Abs(a.v) \div K) \o "." \o StripZeros(FracStr(Abs(a.v) % K, FRAC_K))

------------------------------------------------------------------------------
(* sez_to_ecef.py *)

\* R_E_KM = 6378.137, in units of 1/K km
R_E_KM == 637813700
\* E_E = 0.081819221456, in units of 1/U
E_E == 8181922

USAGE == "Usage: python3 sez_to_ecef.py o_lat_deg o_lon_deg o_hae_km s_km e_km z_km"

\* calc_denom with the cosine of the latitude for its sine
calc_denom_Cos(ecc, lat_rad) ==
  fsqrt(fsub(Fin(U), fmul(fsquare(ecc), fsquare(fcos(lat_rad)))))

\* math.sqrt(1.0-(ecc**2)*(math.sin(lat_rad)**2))
calc_denom(ecc, lat_rad) ==
  fsqrt(fsub(Fin(U), fmul(fsquare(ecc), fsquare(fsin(lat_rad)))))

\* a function's return value
Return(t) == [k |-> "return", v |-> t]

\* the first exception among the components of t, or the return of t
FirstExc(t) ==
  IF IsExc(t[1]) THEN t[1]
  ELSE IF IsExc(t[2]) THEN t[2]
  ELSE IF IsExc(t[3]) THEN t[3]
  ELSE Return(t)

\* what a function returning the tuple t does: it raises the first exception
\* met while t's components were evaluated in order, or returns t
Outcome(t) == Strict1(FirstExc, t)

llh_to_ecef(lat_rad, lon_rad, hae_km) ==
  LET denom == calc_denom(Fin(E_E), lat_rad)
      x(N) == fmul(fmul(fadd(N, hae_km), fcos(lat_rad)), fcos(lon_rad))
      y(N) == fmul(fmul(fadd(N, hae_km), fcos(lat_rad)), fsin(lon_rad))
      z(N) == fmul(fadd(fmul(N, fsub(Fin(U), fsquare(Fin(E_E)))), hae_km),
                   fsin(lat_rad))
      xyz(N) == Outcome(<<x(N), y(N), z(N)>>)
  IN  Strict1(xyz, fdiv(Fin(R_E_KM), denom))

\* sez_to_ecef with e_km*sin_lon for e_km*(-sin_lon) in ecef_x
sez_to_ecef_EastSign(lat_rad, lon_rad, s, e, z) ==
  LET ecef_x(cos_lat, sin_lat, cos_lon, sin_lon) ==
        fadd(fadd(fmul(fmul(s, sin_lat), cos_lon), fmul(e, sin_lon)),
             fmul(fmul(z, cos_lat), cos_lon))
      ecef_y(cos_lat, sin_lat, cos_lon, sin_lon) ==
        fadd(fadd(fmul(fmul(s, sin_lat), sin_lon), fmul(e, cos_lon)),
             fmul(fmul(z, cos_lat), sin_lon))
      ecef_z(cos_lat, sin_lat) ==
        fadd(fmul(s, fneg(cos_lat)), fmul(z, sin_lat))
      ecef_xyz(lat, lon) ==
        Outcome(<<ecef_x(lat[1], lat[2], lon[1], lon[2]),
                  ecef_y(lat[1], lat[2], lon[1], lon[2]),
                  ecef_z(lat[1], lat[2])>>)
  IN  Strict2(ecef_xyz, <<fcos(lat_rad), fsin(lat_rad)>>,
                        <<fcos(lon_rad), fsin(lon_rad)>>)

\* sez_to_ecef with z_km*cos_lat for z_km*sin_lat in ecef_z
sez_to_ecef_ZenithCos(lat_rad, lon_rad, s, e, z) ==
  LET ecef_x(cos_lat, sin_lat, cos_lon, sin_lon) ==
        fadd(fadd(fmul(fmul(s, sin_lat), cos_lon), fmul(e, fneg(sin_lon))),
             fmul(fmul(z, cos_lat), cos_lon))
      ecef_y(cos_lat, sin_lat, cos_lon, sin_lon) ==
        fadd(fadd(fmul(fmul(s, sin_lat), sin_lon), fmul(e, cos_lon)),
             fmul(fmul(z, cos_lat), sin_lon))
      ecef_z(cos_lat, sin_lat) ==
        fadd(fmul(s, fneg(cos_lat)), fmul(z, cos_lat))
      ecef_xyz(lat, lon) ==
        Outcome(<<ecef_x(lat[1], lat[2], lon[1], lon[2]),
                  ecef_y(lat[1], lat[2], lon[1], lon[2]),
                  ecef_z(lat[1], lat[2])>>)
  IN  Strict2(ecef_xyz, <<fcos(lat_rad), fsin(lat_rad)>>,
                        <<fcos(lon_rad), fsin(lon_rad)>>)

\* sez_to_ecef with s_km*cos_lat for s_km*-cos_lat in ecef_z
sez_to_ecef_SouthSign(lat_rad, lon_rad, s, e, z) ==
  LET ecef_x(cos_lat, sin_lat, cos_lon, sin_lon) ==
        fadd(fadd(fmul(fmul(s, sin_lat), cos_lon), fmul(e, fneg(sin_lon))),
             fmul(fmul(z, cos_lat), cos_lon))
      ecef_y(cos_lat, sin_lat, cos_lon, sin_lon) ==
        fadd(fadd(fmul(fmul(s, sin_lat), sin_lon), fmul(e, cos_lon)),
             fmul(fmul(z, cos_lat), sin_lon))
      ecef_z(cos_lat, sin_lat) ==
        fadd(fmul(s, cos_lat), fmul(z, sin_lat))
      ecef_xyz(lat, lon) ==
        Outcome(<<ecef_x(lat[1], lat[2], lon[1], lon[2]),
                  ecef_y(lat[1], lat[2], lon[1], lon[2]),
                  ecef_z(lat[1], lat[2])>>)
  IN  Strict2(ecef_xyz, <<fcos(lat_rad), fsin(lat_rad)>>,
                        <<fcos(lon_rad), fsin(lon_rad)>>)

sez_to_ecef(lat_rad, lon_rad, s, e, z) ==
  LET ecef_x(cos_lat, sin_lat, cos_lon, sin_lon) ==
        fadd(fadd(fmul(fmul(s, sin_lat), cos_lon), fmul(e, fneg(sin_lon))),
             fmul(fmul(z, cos_lat), cos_lon))
      ecef_y(cos_lat, sin_lat, cos_lon, sin_lon) ==
        fadd(fadd(fmul(fmul(s, sin_lat), sin_lon), fmul(e, cos_lon)),
             fmul(fmul(z, cos_lat), sin_lon))
      ecef_z(cos_lat, sin_lat) ==
        fadd(fmul(s, fneg(cos_lat)), fmul(z, sin_lat))
      ecef_xyz(lat, lon) ==
        Outcome(<<ecef_x(lat[1], lat[2], lon[1], lon[2]),
                  ecef_y(lat[1], lat[2], lon[1], lon[2]),
                  ecef_z(lat[1], lat[2])>>)
  IN  Strict2(ecef_xyz, <<fcos(lat_rad), fsin(lat_rad)>>,
                        <<fcos(lon_rad), fsin(lon_rad)>>)

------------------------------------------------------------------------------
(* The script's state *)

VARIABLES
  argv,           \* sys.argv: the script's name, then the arguments
  pc,             \* the line about to run, or "exited"
  o_lat_deg, o_lon_deg, o_hae_km, s_km, e_km, z_km,
  o_lat_rad, o_lon_rad,
  obs_ecef_x_km, obs_ecef_y_km, obs_ecef_z_km,
  sez_x_km, sez_y_km, sez_z_km,
  ecef_x_km, ecef_y_km, ecef_z_km,
  stdout,         \* the lines printed so far
  exc,            \* the uncaught exception that ended the run, or "none"
  status,         \* the exit status, -1 while running
  calls           \* the functions called so far, in order

inputs == <<o_lat_deg, o_lon_deg, o_hae_km, s_km, e_km, z_km>>
rads   == <<o_lat_rad, o_lon_rad>>
obs    == <<obs_ecef_x_km, obs_ecef_y_km, obs_ecef_z_km>>
sez    == <<sez_x_km, sez_y_km, sez_z_km>>
ecef   == <<ecef_x_km, ecef_y_km, ecef_z_km>>
vars   == <<argv, pc, inputs, rads, obs, sez, ecef, stdout, exc, status, calls>>

\* a name not bound yet
Unbound == [k |-> "unbound", v |-> 0]

\* number of arguments tried, 0..MaxArgs
MaxArgs == 7
\* longitudes are tried with 0..MaxTurns whole turns added
MaxTurns == 1

LatTokens == {"0", "30", "-45", "90", "100"}
LonTokens == {IntStr(b + 360 * t) : b \in {0, 60, -120}, t \in 0..MaxTurns}
HaeTokens == {"0", "1.5", "-2"}
SezTokens == {"0", "3", "-4"}
\* tokens float() accepts that are no finite number, and tokens it rejects
SpecialTokens == {"inf", "-inf", "nan"}
BadTokens == {"abc", "", "1.2.3", "x", "-"}

SCRIPT == "sez_to_ecef.py"

NumericArgv ==
  {<<SCRIPT, a, b, c, d, e, f>> :
     a \in LatTokens, b \in LonTokens, c \in HaeTokens,
     d \in SezTokens, e \in SezTokens, f \in SezTokens}

\* one argument of a numeric command line replaced by an odd token
OddArgv ==
  {[base EXCEPT ![i + 1] = t] :
     base \in {<<SCRIPT, "30", "60", "1.5", "3", "-4", "3">>,
               <<SCRIPT, "0", "0", "0", "0", "0", "0">>},
     i \in 1..6, t \in SpecialTokens \cup BadTokens}
  \cup {<<SCRIPT, "abc", "inf", "", "nan", "x", "-">>}

\* command lines with another number of arguments than six
WrongCountArgv ==
  {<<SCRIPT>> \o [i \in 1..n |-> t] :
     n \in (0..MaxArgs) \ {6}, t \in {"1", "abc"}}

ArgvSet == NumericArgv \cup OddArgv \cup WrongCountArgv

\* lines 60-65 have run: every argument variable holds float('nan')
Init ==
  /\ argv \in ArgvSet
  /\ pc = "L68"
  /\ o_lat_deg = NaN /\ o_lon_deg = NaN /\ o_hae_km = NaN
  /\ s_km = NaN /\ e_km = NaN /\ z_km = NaN
  /\ o_lat_rad = Unbound /\ o_lon_rad = Unbound
  /\ obs_ecef_x_km = Unbound /\ obs_ecef_y_km = Unbound /\ obs_ecef_z_km = Unbound
  /\ sez_x_km = Unbound /\ sez_y_km = Unbound /\ sez_z_km = Unbound
  /\ ecef_x_km = Unbound /\ ecef_y_km = Unbound /\ ecef_z_km = Unbound
  /\ stdout = <<>>
  /\ exc = "none"
  /\ status = -1
  /\ calls = <<>>

\* an exception nothing catches: the interpreter stops with status 1
Uncaught(e) ==
  /\ pc' = "exited"
  /\ exc' = e.k
  /\ status' = 1
  /\ UNCHANGED stdout

\* the statement ran: on to the line next
Goto(next) ==
  /\ pc' = next
  /\ UNCHANGED <<exc, status>>

\* line 68 written as  if len(sys.argv) >= 7
CheckArgc_AtLeast ==
  /\ pc = "L68"
  /\ pc' = IF Len(argv) >= 7 THEN "L69" ELSE "L76"
  /\ UNCHANGED <<argv, inputs, rads, obs, sez, ecef, stdout, exc, status, calls>>

\* line 68: if len(sys.argv) == 7
CheckArgc ==
  /\ pc = "L68"
  /\ pc' = IF Len(argv) = 7 THEN "L69" ELSE "L76"
  /\ UNCHANGED <<argv, inputs, rads, obs, sez, ecef, stdout, exc, status, calls>>

\* line 69: o_lat_deg = float(sys.argv[1])
ParseLat ==
  /\ pc = "L69"
  /\ calls' = Append(calls, "float")
  /\ \E r \in {float(argv[2])} :
         IF IsExc(r)
         THEN Uncaught(r) /\ UNCHANGED o_lat_deg
         ELSE o_lat_deg' = r /\ Goto("L70") /\ UNCHANGED stdout
  /\ UNCHANGED <<argv, o_lon_deg, o_hae_km, s_km, e_km, z_km, rads, obs, sez, ecef>>

\* line 70: o_lon_deg = float(sys.argv[2])
ParseLon ==
  /\ pc = "L70"
  /\ calls' = Append(calls, "float")
  /\ \E r \in {float(argv[3])} :
         IF IsExc(r)
         THEN Uncaught(r) /\ UNCHANGED o_lon_deg
         ELSE o_lon_deg' = r /\ Goto("L71") /\ UNCHANGED stdout
  /\ UNCHANGED <<argv, o_lat_deg, o_hae_km, s_km, e_km, z_km, rads, obs, sez, ecef>>

\* line 71: o_hae_km = float(sys.argv[3])
ParseHae ==
  /\ pc = "L71"
  /\ calls' = Append(calls, "float")
  /\ \E r \in {float(argv[4])} :
         IF IsExc(r)
         THEN Uncaught(r) /\ UNCHANGED o_hae_km
         ELSE o_hae_km' = r /\ Goto("L72") /\ UNCHANGED stdout
  /\ UNCHANGED <<argv, o_lat_deg, o_lon_deg, s_km, e_km, z_km, rads, obs, sez, ecef>>

\* line 72: s_km = float(sys.argv[4])
ParseS ==
  /\ pc = "L72"
  /\ calls' = Append(calls, "float")
  /\ \E r \in {float(argv[5])} :
         IF IsExc(r)
         THEN Uncaught(r) /\ UNCHANGED s_km
         ELSE s_km' = r /\ Goto("L73") /\ UNCHANGED stdout
  /\ UNCHANGED <<argv, o_lat_deg, o_lon_deg, o_hae_km, e_km, z_km, rads, obs, sez, ecef>>

\* line 73: e_km = float(sys.argv[5])
ParseE ==
  /\ pc = "L73"
  /\ calls' = Append(calls, "float")
  /\ \E r \in {float(argv[6])} :
         IF IsExc(r)
         THEN Uncaught(r) /\ UNCHANGED e_km
         ELSE e_km' = r /\ Goto("L74") /\ UNCHANGED stdout
  /\ UNCHANGED <<argv, o_lat_deg, o_lon_deg, o_hae_km, s_km, z_km, rads, obs, sez, ecef>>

\* line 74: z_km = float(sys.argv[6])
ParseZ ==
  /\ pc = "L74"
  /\ calls' = Append(calls, "float")
  /\ \E r \in {float(argv[7])} :
         IF IsExc(r)
         THEN Uncaught(r) /\ UNCHANGED z_km
         ELSE z_km' = r /\ Goto("L80") /\ UNCHANGED stdout
  /\ UNCHANGED <<argv, o_lat_deg, o_lon_deg, o_hae_km, s_km, e_km, rads, obs, sez, ecef>>

\* line 76: print('Usage: ...')
PrintUsage ==
  /\ pc = "L76"
  /\ stdout' = Append(stdout, USAGE)
  /\ Goto("L77")
  /\ UNCHANGED <<argv, inputs, rads, obs, sez, ecef, calls>>

\* line 77 left out: the else branch falls through to line 80
Exit_Missing ==
  /\ pc = "L77"
  /\ pc' = "L80"
  /\ UNCHANGED <<argv, inputs, rads, obs, sez, ecef, stdout, exc, status, calls>>

\* line 77: exit()
Exit ==
  /\ pc = "L77"
  /\ pc' = "exited"
  /\ status' = 0
  /\ UNCHANGED <<argv, inputs, rads, obs, sez, ecef, stdout, exc, calls>>

\* line 80: o_lat_rad = math.radians(o_lat_deg)
RadLat ==
  /\ pc = "L80"
  /\ calls' = Append(calls, "radians")
  /\ o_lat_rad' = radians(o_lat_deg)
  /\ Goto("L81")
  /\ UNCHANGED <<argv, inputs, o_lon_rad, obs, sez, ecef, stdout>>

\* line 81: o_lon_rad = math.radians(o_lon_deg)
RadLon ==
  /\ pc = "L81"
  /\ calls' = Append(calls, "radians")
  /\ o_lon_rad' = radians(o_lon_deg)
  /\ Goto("L84")
  /\ UNCHANGED <<argv, inputs, o_lat_rad, obs, sez, ecef, stdout>>

\* line 84: obs_ecef_x_km, obs_ecef_y_km, obs_ecef_z_km = llh_to_ecef(...)
CallLlh ==
  /\ pc = "L84"
  /\ calls' = Append(calls, "llh_to_ecef")
  /\ \E r \in {llh_to_ecef(o_lat_rad, o_lon_rad, o_hae_km)} :
         IF IsExc(r)
         THEN Uncaught(r) /\ UNCHANGED obs
         ELSE /\ obs_ecef_x_km' = r.v[1]
              /\ obs_ecef_y_km' = r.v[2]
              /\ obs_ecef_z_km' = r.v[3]
              /\ Goto("L87")
              /\ UNCHANGED stdout
  /\ UNCHANGED <<argv, inputs, rads, sez, ecef>>

\* line 87: sez_x_km, sez_y_km, sez_z_km = sez_to_ecef(...)
CallSez ==
  /\ pc = "L87"
  /\ calls' = Append(calls, "sez_to_ecef")
  /\ \E r \in {sez_to_ecef(o_lat_rad, o_lon_rad, s_km, e_km, z_km)} :
         IF IsExc(r)
         THEN Uncaught(r) /\ UNCHANGED sez
         ELSE /\ sez_x_km' = r.v[1]
              /\ sez_y_km' = r.v[2]
              /\ sez_z_km' = r.v[3]
              /\ Goto("L90")
              /\ UNCHANGED stdout
  /\ UNCHANGED <<argv, inputs, rads, obs, ecef>>

\* line 90: ecef_x_km = obs_ecef_x_km+sez_x_km
AddX ==
  /\ pc = "L90"
  /\ ecef_x_km' = fadd(obs_ecef_x_km, sez_x_km)
  /\ Goto("L91")
  /\ UNCHANGED <<argv, inputs, rads, obs, sez, ecef_y_km, ecef_z_km, stdout, calls>>

\* line 91: ecef_y_km = obs_ecef_y_km+sez_y_km
AddY ==
  /\ pc = "L91"
  /\ ecef_y_km' = fadd(obs_ecef_y_km, sez_y_km)
  /\ Goto("L92")
  /\ UNCHANGED <<argv, inputs, rads, obs, sez, ecef_x_km, ecef_z_km, stdout, calls>>

\* line 92: ecef_z_km = obs_ecef_z_km+sez_z_km
AddZ ==
  /\ pc = "L92"
  /\ ecef_z_km' = fadd(obs_ecef_z_km, sez_z_km)
  /\ Goto("L95")
  /\ UNCHANGED <<argv, inputs, rads, obs, sez, ecef_x_km, ecef_y_km, stdout, calls>>

\* line 95: print(ecef_x_km)
PrintX ==
  /\ pc = "L95"
  /\ stdout' = Append(stdout, Repr(ecef_x_km))
  /\ Goto("L96")
  /\ UNCHANGED <<argv, inputs, rads, obs, sez, ecef, calls>>

\* line 96 written as  print(ecef_x_km)
PrintY_WrongName ==
  /\ pc = "L96"
  /\ stdout' = Append(stdout, Repr(ecef_x_km))
  /\ Goto("L97")
  /\ UNCHANGED <<argv, inputs, rads, obs, sez, ecef, calls>>

\* line 96: print(ecef_y_km)
PrintY ==
  /\ pc = "L96"
  /\ stdout' = Append(stdout, Repr(ecef_y_km))
  /\ Goto("L97")
  /\ UNCHANGED <<argv, inputs, rads, obs, sez, ecef, calls>>

\* line 97: print(ecef_z_km), the script's last statement: status 0
PrintZ ==
  /\ pc = "L97"
  /\ stdout' = Append(stdout, Repr(ecef_z_km))
  /\ pc' = "exited"
  /\ status' = 0
  /\ UNCHANGED <<argv, inputs, rads, obs, sez, ecef, exc, calls>>

Next ==
  \/ CheckArgc
  \/ ParseLat \/ ParseLon \/ ParseHae \/ ParseS \/ ParseE \/ ParseZ
  \/ PrintUsage \/ Exit
  \/ RadLat \/ RadLon
  \/ CallLlh \/ CallSez
  \/ AddX \/ AddY \/ AddZ
  \/ PrintX \/ PrintY \/ PrintZ

Spec == Init /\ [][Next]_vars

------------------------------------------------------------------------------
(* Vocabulary of the properties *)

\* the i-th command-line argument
Arg(i) == argv[i + 1]

\* the printed lines that are coordinates
CoordCount == Cardinality({i \in 1..Len(stdout) : stdout[i] # USAGE})

RECURSIVE OnlyNumberChars(_)
OnlyNumberChars(l) ==
  l = "" \/ ((IsDigit(Head(l)) \/ Head(l) = ".") /\ OnlyNumberChars(Tail(l)))

\* a line that is a number and nothing else: an optional minus sign, then
\* digits and a decimal point, or the name of a non-finite float
BareNumber(l) ==
  LET body == IF l # "" /\ Head(l) = "-" THEN Tail(l) ELSE l
  IN  body \in {"nan", "inf"} \/ (body # "" /\ OnlyNumberChars(body))

\* the run got six arguments, parsed them, and ended without an exception
Succeeded == Len(argv) = 7 /\ pc = "exited" /\ status = 0

\* every parsed argument is a finite number
FiniteInputs == \A i \in 1..6 : IsFin(inputs[i])

\* finite a and b differ by at most n units of the last place
Near(a, b, n) == IsFin(a) /\ IsFin(b) /\ Abs(a.v - b.v) <= n

------------------------------------------------------------------------------
(* Argument handling and output *)

\* C1: a run whose number of arguments is not six calls no conversion and
\* binds nothing, prints nothing but the usage message, runs on until it has
\* exited, and has then printed exactly the usage message with status 0.
C1_UsageOnWrongCount ==
  Len(argv) # 7 =>
    /\ calls = <<>>
    /\ \A i \in 1..6 : inputs[i] = NaN
    /\ \A v \in {o_lat_rad, o_lon_rad, obs_ecef_x_km, sez_x_km, ecef_x_km} :
         v = Unbound
    /\ stdout \in {<<>>, <<USAGE>>}
    /\ exc = "none"
    /\ pc # "exited" => ENABLED Next
    /\ pc = "exited" => stdout = <<USAGE>> /\ status = 0

\* C1 witness: a run with seven arguments has exited after the usage message
C1_Witness ==
  Len(argv) = 8 /\ pc = "exited" /\ stdout = <<USAGE>> /\ status = 0

\* C2: a run with six arguments one of which float() rejects calls nothing but
\* float(), prints nothing, runs on until it has exited, and has then ended by
\* an uncaught ValueError with status 1.
C2_ValueErrorOnBadToken ==
  (Len(argv) = 7 /\ \E i \in 1..6 : Arg(i) \in BadTokens) =>
    /\ \A j \in 1..Len(calls) : calls[j] = "float"
    /\ stdout = <<>>
    /\ \A v \in {o_lat_rad, o_lon_rad, obs_ecef_x_km, sez_x_km, ecef_x_km} :
         v = Unbound
    /\ pc # "exited" => ENABLED Next
    /\ pc = "exited" => exc = "ValueError" /\ status = 1

\* C2 witness: the sixth argument alone is rejected, after five were parsed
C2_Witness ==
  /\ Len(argv) = 7
  /\ Arg(6) \in BadTokens
  /\ \A i \in 1..5 : Arg(i) \notin BadTokens
  /\ pc = "exited"
  /\ exc = "ValueError"
  /\ Len(calls) = 6

\* C3: a run with six arguments that float() all accepts never ends in an
\* error: once exited it has status 0, no exception, and three lines printed.
C3_NoErrorOnNumbers ==
  (Len(argv) = 7 /\ (\A i \in 1..6 : Arg(i) \notin BadTokens) /\ pc = "exited") =>
    exc = "none" /\ status = 0 /\ Len(stdout) = 3

\* C4: while a run with six arguments prints, its lines are str(ecef_x_km),
\* str(ecef_y_km), str(ecef_z_km) in that order, each a bare number; a
\* successful run has printed exactly these three and no usage message.
C4_ThreeBareLines ==
  Len(argv) = 7 =>
    /\ Len(stdout) <= 3
    /\ \A i \in 1..Len(stdout) :
         stdout[i] = Repr(ecef[i]) /\ BareNumber(stdout[i]) /\ stdout[i] # USAGE
    /\ Succeeded => Len(stdout) = 3

\* C4 witness: a successful run whose three coordinates differ
C4_Witness ==
  /\ Succeeded
  /\ FiniteInputs
  /\ Cardinality({stdout[i] : i \in 1..Len(stdout)}) = 3

------------------------------------------------------------------------------
(* The conversion *)

\* lines 80-92 as a function of the six parsed arguments
Converted(lat_deg, lon_deg, hae_km, s, e, z) ==
  LET at(lat, lon) ==
        LET sum(o, q) == <<fadd(o.v[1], q.v[1]), fadd(o.v[2], q.v[2]),
                           fadd(o.v[3], q.v[3])>>
        IN  Strict2(sum, llh_to_ecef(lat, lon, hae_km),
                         sez_to_ecef(lat, lon, s, e, z))
  IN  Strict2(at, radians(lat_deg), radians(lon_deg))

\* C5: a successful run called float() six times, then radians() twice, then
\* llh_to_ecef(), then sez_to_ecef(); its coordinates are, with phi and lam the
\* latitude and longitude times pi/180 and N = R_E_KM / sqrt(1 - e^2 sin^2 phi),
\*   (N+h) cos phi cos lam   + s sin phi cos lam - e sin lam + z cos phi cos lam
\*   (N+h) cos phi sin lam   + s sin phi sin lam + e cos lam + z cos phi sin lam
\*   (N(1-e^2)+h) sin phi    - s cos phi + z sin phi
\* and the lines printed are these three.
C5_SumOfTransforms ==
  Succeeded =>
    \A phi \in {fmul(o_lat_deg, Fin(DEG_TO_RAD))},
       lam \in {fmul(o_lon_deg, Fin(DEG_TO_RAD))} :
    \A cp \in {fcos(phi)}, sp \in {fsin(phi)},
       cl \in {fcos(lam)}, sl \in {fsin(lam)}, e2 \in {fsquare(Fin(E_E))} :
    \A N \in {fdiv(Fin(R_E_KM), fsqrt(fsub(Fin(U), fmul(e2, fsquare(sp)))))} :
    \A X \in {fadd(fmul(fmul(fadd(N, o_hae_km), cp), cl),
                   fadd(fsub(fmul(fmul(s_km, sp), cl), fmul(e_km, sl)),
                        fmul(fmul(z_km, cp), cl)))},
       Y \in {fadd(fmul(fmul(fadd(N, o_hae_km), cp), sl),
                   fadd(fadd(fmul(fmul(s_km, sp), sl), fmul(e_km, cl)),
                        fmul(fmul(z_km, cp), sl)))},
       Z \in {fadd(fmul(fadd(fmul(N, fsub(Fin(U), e2)), o_hae_km), sp),
                   fadd(fneg(fmul(s_km, cp)), fmul(z_km, sp)))} :
      /\ ecef = <<X, Y, Z>>
      /\ stdout = <<Repr(X), Repr(Y), Repr(Z)>>
      /\ calls = <<"float", "float", "float", "float", "float", "float",
                   "radians", "radians", "llh_to_ecef", "sez_to_ecef">>

\* C5 witness: a successful run off the axes with every SEZ component at work
C5_Witness ==
  /\ Succeeded
  /\ FiniteInputs
  /\ \A v \in {o_lat_deg, o_lon_deg, o_hae_km, s_km, e_km, z_km} : v.v # 0
  /\ \A v \in {sez_x_km, sez_y_km, sez_z_km} : v.v # 0

\* C6: with finite arguments and SEZ = (0, 0, z) the coordinates are those of
\* llh_to_ecef(phi, lam, h) plus z times (cos phi cos lam, cos phi sin lam,
\* sin phi), to within two units of the last place; with z = 0 they are those
\* of llh_to_ecef(phi, lam, h) exactly.
C6_ZenithOnly ==
  (Succeeded /\ FiniteInputs /\ s_km = Fin(0) /\ e_km = Fin(0)) =>
    \A phi \in {radians(o_lat_deg)}, lam \in {radians(o_lon_deg)} :
    \A o \in {llh_to_ecef(phi, lam, o_hae_km).v} :
      /\ Near(ecef_x_km, fadd(o[1], fmul(z_km, fmul(fcos(phi), fcos(lam)))), 2)
      /\ Near(ecef_y_km, fadd(o[2], fmul(z_km, fmul(fcos(phi), fsin(lam)))), 2)
      /\ Near(ecef_z_km, fadd(o[3], fmul(z_km, fsin(phi))), 2)
      /\ z_km = Fin(0) => ecef = o

\* C6 witness: a successful run off the axes with a zenith-only offset
C6_Witness ==
  /\ Succeeded
  /\ FiniteInputs
  /\ s_km = Fin(0) /\ e_km = Fin(0) /\ z_km # Fin(0)
  /\ \A v \in {sez_x_km, sez_y_km, sez_z_km} : v.v # 0

\* C7: for the arguments 0 0 0 0 0 0 the run ends with status 0 having
\* printed 6378.137, 0.0 and 0.0: x is R_E_KM, y and z are zero.
C7_KnownValue ==
  (argv = <<SCRIPT, "0", "0", "0", "0", "0", "0">> /\ pc = "exited") =>
    /\ status = 0
    /\ ecef = <<Fin(R_E_KM), Fin(0), Fin(0)>>
    /\ stdout = <<"6378.137", "0.0", "0.0">>

\* C7 witness: that run has exited
C7_Witness ==
  argv = <<SCRIPT, "0", "0", "0", "0", "0", "0">> /\ pc = "exited" /\ Len(stdout) = 3

\* C8: with finite arguments, the coordinates of a successful run and those
\* the same arguments give with 360 added to the longitude agree to within 16
\* units of the last place (1.6e-4 km).
C8_LongitudePeriod ==
  (Succeeded /\ FiniteInputs) =>
    \A t \in {Converted(o_lat_deg, fadd(o_lon_deg, Fin(360 * K)),
                        o_hae_km, s_km, e_km, z_km)} :
      \A i \in 1..3 : Near(ecef[i], t[i], 16)

\* C8 witness: a successful run off the axes at a longitude that is no
\* multiple of 90 degrees
C8_Witness ==
  /\ Succeeded
  /\ FiniteInputs
  /\ o_lon_deg.v % (90 * K) # 0
  /\ \A v \in {sez_x_km, sez_y_km, sez_z_km} : v.v # 0

\* the sum of the squares of three fixed-point values, exactly, as <<H, L>>
\* with the sum H*U + L and 0 <= L < U
NormSq(t) ==
  LET a == WideMul(Abs(t[1]), Abs(t[1]))
      b == WideMul(Abs(t[2]), Abs(t[2]))
      c == WideMul(Abs(t[3]), Abs(t[3]))
      l == a[2] + b[2] + c[2]
  IN  <<a[1] + b[1] + c[1] + (l \div U), l % U>>

\* |m - n| <= d for m, n given as <<H, L>>
WideNear(m, n, d) ==
  /\ Abs(m[1] - n[1]) <= 1
  /\ Abs((m[1] - n[1]) * U + (m[2] - n[2])) <= d

\* C9: for finite arguments the vector sez_to_ecef returns has the norm of
\* (s, e, z): the squared norms differ by at most 4 (|s| + |e| + |z|) squared
\* units of the last place, the rounding of a vector displaced by two units.
C9_NormPreserved ==
  (sez_x_km # Unbound /\ FiniteInputs) =>
    WideNear(NormSq(<<sez_x_km.v, sez_y_km.v, sez_z_km.v>>),
             NormSq(<<s_km.v, e_km.v, z_km.v>>),
             4 * (Abs(s_km.v) + Abs(e_km.v) + Abs(z_km.v)))

\* C9 witness: sez_to_ecef has returned for a vector with three components at
\* work, at a latitude and a longitude off the axes
C9_Witness ==
  /\ sez_x_km # Unbound
  /\ FiniteInputs
  /\ \A v \in {s_km, e_km, z_km} : v.v # 0
  /\ o_lat_deg.v % (90 * K) # 0
  /\ o_lon_deg.v % (90 * K) # 0

====
